---------------------------- MODULE Spec2Model ----------------------------
(***************************************************************************)
(* Model of main2.py: the class TavilyAgents (constructor, search_agent,   *)
(* extract_agent, crawl_agent) and the interactive menu loop main().       *)
(*                                                                         *)
(* Python text is a sequence of one-character strings, so that strip() and *)
(* split(',') are computed as Python computes them.  A Python value is a   *)
(* record [t, v]: t is its type ("str", "none", "list", "dict", "int").    *)
(* A result dictionary is a function whose domain is the set of keys the   *)
(* dictionary holds.  The remote client (TavilyClient) is the environment: *)
(* each call to it has a nondeterministic outcome.                         *)
(*                                                                         *)
(* Two specifications: Spec is the program run as a script (main), with    *)
(* stdin an interactive terminal on which every read returns a line;       *)
(* SpecAgents is the class used directly by a caller, with any arguments.  *)
(***************************************************************************)
EXTENDS Integers, Sequences, FiniteSets

VARIABLES
    pc,      \* control point of main() / of the caller of the class
    agents,  \* the TavilyAgents instance: NoAgents or [api_key, client]
    calls,   \* the method calls made by the last step, in order
    reqs,    \* the remote client requests issued by the last step, in order
    resp,    \* the outcome the remote client gave in the last step
    ret,     \* what the method called in the last step returned or raised
    out,     \* what the last step printed, one item per print statement
    line,    \* the last raw line read from stdin
    choice   \* main(): the last menu choice, stripped

vars == <<pc, agents, calls, reqs, resp, ret, out, line, choice>>

---------------------------------------------------------------------------
(* Bounds *)

\* Longest results sequence in a remote response.
MaxResults == 2
\* Longest list of URLs a direct caller passes to extract_agent.
MaxUrls == 2

---------------------------------------------------------------------------
(* Python values *)

Str(s) == [t |-> "str", v |-> s]
None == [t |-> "none", v |-> <<>>]
PyInt(n) == [t |-> "int", v |-> n]
List(l) == [t |-> "list", v |-> l]
Dict(d) == [t |-> "dict", v |-> d]
\* Marks a key a dictionary does not hold (only used to build dictionaries).
Absent == [t |-> "absent", v |-> <<>>]

\* Truth value of a str or None: empty strings and None are false.
Truthy(x) == x.t = "str" /\ x.v # <<>>

\* a or b
PyOr(a, b) == IF Truthy(a) THEN a ELSE b

\* d.get(k, default)
Get(d, k, default) == IF k \in DOMAIN d THEN d[k] ELSE default

NoExc == "NoExc"

\* The exception classes that occur; all of them derive from Exception.
ExceptionSubclasses ==
    {"KeyError", "TypeError", "AttributeError", "ValueError",
     "ConnectionError", "InvalidAPIKeyError"}

\* What the remote client raises: transport and API errors.
RemoteErrors == {"ConnectionError", "InvalidAPIKeyError"}

\* A value returned, or an exception leaving the callee.
Returned(x) == [t |-> "return", v |-> x]
Raised(e) == [t |-> "raise", v |-> e]
Nothing == [t |-> "nothing", v |-> <<>>]

\* One print statement: a tag and the value interpolated into it.
P(tag, x) == [p |-> tag, v |-> x]

---------------------------------------------------------------------------
(* Text *)

Whitespace == {" ", "\t"}

RECURSIVE lstrip(_)
lstrip(s) ==
    IF s # <<>> /\ Head(s) \in Whitespace THEN lstrip(Tail(s)) ELSE s

RECURSIVE rstrip(_)
rstrip(s) ==
    IF s # <<>> /\ s[Len(s)] \in Whitespace
    THEN rstrip(SubSeq(s, 1, Len(s) - 1))
    ELSE s

\* str.lstrip() where str.strip() was meant.
strip_leftOnly(s) == lstrip(s)

\* str.strip()
strip(s) == rstrip(lstrip(s))

\* str.split(','): the pieces between commas; always at least one piece.
RECURSIVE split(_)
split(s) ==
    IF \E i \in 1..Len(s) : s[i] = ","
    THEN LET i == CHOOSE j \in 1..Len(s) :
                      s[j] = "," /\ \A k \in 1..(j - 1) : s[k] # ","
         IN  <<SubSeq(s, 1, i - 1)>> \o split(SubSeq(s, i + 1, Len(s)))
    ELSE <<s>>

\* [u.strip() for u in pieces]
StripEach(pieces) == [i \in 1..Len(pieces) |-> strip(pieces[i])]

---------------------------------------------------------------------------
(* Result dictionaries and remote outcomes *)

Keys == {"title", "url", "raw_content", "content"}

\* The dictionary holding exactly the keys whose value is not Absent.
MkResult(title, url, raw_content, content) ==
    LET f == [k \in Keys |->
                 CASE k = "title" -> title
                   [] k = "url" -> url
                   [] k = "raw_content" -> raw_content
                   [] k = "content" -> content]
    IN  [k \in {x \in Keys : f[x] # Absent} |-> f[k]]

TitleText == <<"T">>
UrlText == <<"U">>
RawText == <<"r", "a", "w">>
SumText == <<"s", "m">>

RawVals == {Absent, None, Str(<<>>), Str(RawText)}
ContentVals == {Absent, None, Str(<<>>), Str(SumText)}

\* The result records the remote service may return: every combination of
\* the two content fields, and every combination of title and url present.
Records ==
    {MkResult(Str(TitleText), Str(UrlText), r, c) :
        r \in RawVals, c \in ContentVals}
    \cup
    {MkResult(t, u, Str(RawText), Str(SumText)) :
        t \in {Absent, Str(TitleText)}, u \in {Absent, Str(UrlText)}}

SeqsUpTo(S, n) == UNION {[1..k -> S] : k \in 0..n}

\* A response envelope: metadata, and a results sequence that may be missing.
WithResults(rs) == [results |-> rs, response_time |-> 1]
NoResults == [response_time |-> 1]

Envelopes(n) == {NoResults} \cup {WithResults(rs) : rs \in SeqsUpTo(Records, n)}

\* What one call of the remote client can do: raise, return None, or return
\* an envelope.
Outcomes(n) ==
    {Raised(e) : e \in RemoteErrors}
    \cup {Returned(None)}
    \cup {Returned(Dict(env)) : env \in Envelopes(n)}

---------------------------------------------------------------------------
(* class TavilyAgents *)

NoAgents == [api_key |-> Absent, client |-> Absent]

\* The constructor with the fallback the other way round:
\* os.environ.get('TAVILY_API_KEY') or api_key.
TavilyAgents_init_environFirst(api_key, environ_value) ==
    LET key == PyOr(environ_value, api_key)
    IN  IF ~Truthy(key)
        THEN [ret |-> Raised("ValueError"), agents |-> NoAgents]
        ELSE [ret |-> Returned(None),
              agents |-> [api_key |-> key,
                          client |-> [t |-> "client", v |-> key.v]]]

\* __init__(self, api_key): environ_value is os.environ.get('TAVILY_API_KEY').
TavilyAgents_init(api_key, environ_value) ==
    LET key == PyOr(api_key, environ_value)
    IN  IF ~Truthy(key)
        THEN [ret |-> Raised("ValueError"), agents |-> NoAgents]
        ELSE [ret |-> Returned(None),
              agents |-> [api_key |-> key,
                          client |-> [t |-> "client", v |-> key.v]]]

\* except (KeyError, TypeError, AttributeError, ValueError): a handler that
\* names the errors of the formatting code only.
IsException_formattingOnly(e) ==
    e \in {"KeyError", "TypeError", "AttributeError", "ValueError"}

\* except Exception: the classes the handler catches.
IsException(e) == e \in ExceptionSubclasses

\* try: body / except Exception as e: print(message); return None
\* body is [exc, out]; value is what the try block returns when nothing raises.
TryExcept(head, requests, body, value, message) ==
    IF body.exc = NoExc
    THEN [ret |-> Returned(value), out |-> head \o body.out, reqs |-> requests]
    ELSE IF IsException(body.exc)
    THEN [ret |-> Returned(None),
          out |-> head \o body.out \o <<P(message, [t |-> "exc", v |-> body.exc])>>,
          reqs |-> requests]
    ELSE [ret |-> Raised(body.exc), out |-> head \o body.out, reqs |-> requests]

\* full_content = result.get('content', '') or result.get('raw_content', '')
FullContent_summaryFirst(result) ==
    PyOr(Get(result, "content", Str(<<>>)), Get(result, "raw_content", Str(<<>>)))

\* full_content = result.get('raw_content', '') or result.get('content', '')
FullContent(result) ==
    PyOr(Get(result, "raw_content", Str(<<>>)), Get(result, "content", Str(<<>>)))

\* The body of search_agent's for loop, for one result (the separator lines
\* carry no value and are left out).
FormatSearchResult(result, i) ==
    LET h == <<P("Result #", PyInt(i))>>
    IN  IF "title" \notin DOMAIN result
        THEN [exc |-> "KeyError", out |-> h]
        ELSE IF "url" \notin DOMAIN result
        THEN [exc |-> "KeyError", out |-> h \o <<P("Title", result["title"])>>]
        ELSE
          LET b == h \o <<P("Title", result["title"]),
                          P("URL", result["url"]),
                          P("Relevance Score",
                            Get(result, "score", Str(<<"N", "/", "A">>)))>>
              full_content == FullContent(result)
          IN  IF full_content.t # "str"
              THEN [exc |-> "TypeError", out |-> b]
              ELSE [exc |-> NoExc,
                    out |-> b \o <<P("Content Length", PyInt(Len(full_content.v))),
                                   P("Full Content", full_content),
                                   P("Available data fields",
                                     [t |-> "keys", v |-> DOMAIN result])>>]

\* for i, result in enumerate(results, 1): stops at the first exception.
RECURSIVE SearchLoop(_, _)
SearchLoop(results, i) ==
    IF i > Len(results)
    THEN [exc |-> NoExc, out |-> <<>>]
    ELSE LET r == FormatSearchResult(results[i], i)
         IN  IF r.exc # NoExc
             THEN r
             ELSE LET rest == SearchLoop(results, i + 1)
                  IN  [exc |-> rest.exc, out |-> r.out \o rest.out]

search_agent(query, max_results, outcome) ==
    LET head == <<P("SEARCH AGENT", Str(query))>>
        req == [op |-> "search", query |-> query, max_results |-> max_results,
                search_depth |-> "advanced", include_raw_content |-> TRUE]
        body ==
            IF outcome.t = "raise"
            THEN [exc |-> outcome.v, out |-> <<>>]
            ELSE IF outcome.v.t # "dict"
            THEN [exc |-> "AttributeError", out |-> <<>>]
            ELSE LET results == Get(outcome.v.v, "results", <<>>)
                     loop == SearchLoop(results, 1)
                 IN  [exc |-> loop.exc,
                      out |-> <<P("Found", PyInt(Len(results)))>> \o loop.out]
    IN  TryExcept(head, <<req>>, body, outcome.v, "Error in search")

\* The body of extract_agent's for loop, for one result.
FormatExtractResult(result, i) ==
    LET h == <<P("Extraction #", PyInt(i))>>
    IN  IF "url" \notin DOMAIN result
        THEN [exc |-> "KeyError", out |-> h]
        ELSE
          LET b == h \o <<P("URL", result["url"]),
                          P("Title", Get(result, "title", Str(<<"N", "/", "A">>)))>>
              raw_content == Get(result, "raw_content", Str(<<>>))
          IN  IF raw_content.t # "str"
              THEN [exc |-> "TypeError", out |-> b]
              ELSE [exc |-> NoExc,
                    out |-> b \o <<P("Content Length", PyInt(Len(raw_content.v))),
                                   P("Full Extracted Content", raw_content)>>]

RECURSIVE ExtractLoop(_, _)
ExtractLoop(results, i) ==
    IF i > Len(results)
    THEN [exc |-> NoExc, out |-> <<>>]
    ELSE LET r == FormatExtractResult(results[i], i)
         IN  IF r.exc # NoExc
             THEN r
             ELSE LET rest == ExtractLoop(results, i + 1)
                  IN  [exc |-> rest.exc, out |-> r.out \o rest.out]

\* urls = list(urls): a string becomes the list of its characters.
NormalizeUrls_listOfChars(urls) ==
    IF urls.t = "str"
    THEN List([i \in 1..Len(urls.v) |-> <<urls.v[i]>>])
    ELSE urls

\* if isinstance(urls, str): urls = [urls]
NormalizeUrls(urls) == IF urls.t = "str" THEN List(<<urls.v>>) ELSE urls

extract_agent(urls, outcome) ==
    LET urls1 == NormalizeUrls(urls)
        head == <<P("EXTRACT AGENT", PyInt(Len(urls1.v)))>>
        req == [op |-> "extract", urls |-> urls1.v]
        body ==
            IF outcome.t = "raise"
            THEN [exc |-> outcome.v, out |-> <<>>]
            ELSE IF outcome.v.t # "dict"
            THEN [exc |-> "AttributeError", out |-> <<>>]
            ELSE ExtractLoop(Get(outcome.v.v, "results", <<>>), 1)
    IN  TryExcept(head, <<req>>, body, outcome.v, "Error in extraction")

\* The block of crawl_agent that displays the first result.
FormatCrawlResult(result) ==
    IF "url" \notin DOMAIN result
    THEN [exc |-> "KeyError", out |-> <<>>]
    ELSE
      LET b == <<P("Main Page", result["url"]),
                 P("Title", Get(result, "title", Str(<<"N", "/", "A">>)))>>
          full_content == Get(result, "raw_content", Str(<<>>))
      IN  IF full_content.t # "str"
          THEN [exc |-> "TypeError", out |-> b]
          ELSE [exc |-> NoExc,
                out |-> b \o <<P("Content extracted", PyInt(Len(full_content.v))),
                               P("Full Crawled Content", full_content)>>]

\* The request with max_depth passed on to the remote call.
CrawlRequest_withDepth(url, max_depth) ==
    [op |-> "extract", urls |-> <<url>>, include_raw_content |-> TRUE,
     max_depth |-> max_depth]

\* self.client.extract(urls=[url], include_raw_content=True)
CrawlRequest(url, max_depth) ==
    [op |-> "extract", urls |-> <<url>>, include_raw_content |-> TRUE]

crawl_agent(url, max_depth, outcome) ==
    LET head == <<P("CRAWL AGENT", [t |-> "crawl", v |-> <<url, max_depth>>])>>
        req == CrawlRequest(url, max_depth)
        body ==
            IF outcome.t = "raise"
            THEN [exc |-> outcome.v, out |-> <<>>]
            ELSE IF outcome.v.t = "dict"
                    /\ "results" \in DOMAIN outcome.v.v
                    /\ outcome.v.v["results"] # <<>>
            THEN FormatCrawlResult(outcome.v.v["results"][1])
            ELSE [exc |-> NoExc, out |-> <<>>]
    IN  TryExcept(head, <<req>>, body, outcome.v, "Error in crawling")

---------------------------------------------------------------------------
(* Inputs *)

\* Defaults of the method signatures.
DefaultMaxResults == 5
DefaultMaxDepth == 2

\* Credential values: the constructor argument and the environment value.
CredVals == {None, Str(<<>>), Str(<<"k", "1">>), Str(<<"k", "2">>)}

\* What a direct caller passes.
Queries == {<<>>, <<"q">>}
ResultCounts == {1, DefaultMaxResults}
Urls == {<<"x">>, <<"y", "2">>}
Depths == {1, DefaultMaxDepth, 3}
UrlArgs == {Str(u) : u \in Urls} \cup {List(l) : l \in SeqsUpTo(Urls, MaxUrls)}

\* The lines typed at the terminal.
Lines ==
    { <<>>, <<" ">>, <<"1">>, <<"2">>, <<"3">>, <<"4">>,
      <<" ", "4", "\t">>, <<" ", "2">>, <<"9">>, <<"4", "4">>,
      <<"x">>, <<" ", "x", " ">>, <<",">>,
      <<"x", ",", " ", "y">>, <<" ", "x", " ", ",", "y", ",", " ">> }

\* What the remote client can do when a direct caller calls an agent.
AgentOutcomes == Outcomes(MaxResults)

\* What the remote client can do when main() calls an agent.
ShellOutcomes == Outcomes(1)

Call(method, args) == [method |-> method, args |-> args]

---------------------------------------------------------------------------
(* The class used directly: construct, then call one method *)

InitAgents ==
    /\ pc = "new"
    /\ agents = NoAgents
    /\ calls = <<>>
    /\ reqs = <<>>
    /\ resp = Nothing
    /\ ret = Nothing
    /\ out = <<>>
    /\ line = <<>>
    /\ choice = <<>>

\* agents = TavilyAgents(api_key)
Construct(api_key, environ_value) ==
    /\ pc = "new"
    /\ LET r == TavilyAgents_init(api_key, environ_value)
       IN  /\ agents' = r.agents
           /\ ret' = r.ret
           /\ pc' = IF r.ret.t = "raise" THEN "ctor_failed" ELSE "ready"
    /\ calls' = <<[method |-> "__init__", args |-> <<api_key>>,
                   environ |-> environ_value]>>
    /\ reqs' = <<>>
    /\ resp' = Nothing
    /\ out' = <<>>
    /\ UNCHANGED <<line, choice>>

\* The effect of one agent call on the state; r is what the method did.
AgentCalled(call, outcome, r) ==
    /\ calls' = <<call>>
    /\ reqs' = r.reqs
    /\ resp' = outcome
    /\ ret' = r.ret
    /\ out' = r.out

\* agents.search_agent(query, max_results)
CallSearch(query, max_results, outcome) ==
    /\ pc = "ready"
    /\ AgentCalled(Call("search_agent", <<Str(query), PyInt(max_results)>>),
                   outcome, search_agent(query, max_results, outcome))
    /\ pc' = "returned"
    /\ UNCHANGED <<agents, line, choice>>

\* agents.extract_agent(urls)
CallExtract(urls, outcome) ==
    /\ pc = "ready"
    /\ AgentCalled(Call("extract_agent", <<urls>>),
                   outcome, extract_agent(urls, outcome))
    /\ pc' = "returned"
    /\ UNCHANGED <<agents, line, choice>>

\* agents.crawl_agent(url, max_depth)
CallCrawl(url, max_depth, outcome) ==
    /\ pc = "ready"
    /\ AgentCalled(Call("crawl_agent", <<Str(url), PyInt(max_depth)>>),
                   outcome, crawl_agent(url, max_depth, outcome))
    /\ pc' = "returned"
    /\ UNCHANGED <<agents, line, choice>>

\* The control point is tested before the inputs are drawn.
NextAgents ==
    \/ pc = "new" /\ \E a \in CredVals, e \in CredVals : Construct(a, e)
    \/ pc = "ready" /\ \E q \in Queries, n \in ResultCounts, o \in AgentOutcomes :
          CallSearch(q, n, o)
    \/ pc = "ready" /\ \E u \in UrlArgs, o \in AgentOutcomes : CallExtract(u, o)
    \/ pc = "ready" /\ \E u \in Urls, d \in Depths, o \in AgentOutcomes :
          CallCrawl(u, d, o)

SpecAgents == InitAgents /\ [][NextAgents]_vars

---------------------------------------------------------------------------
(* main(): the menu loop; one action per input() that returns *)

Init ==
    /\ pc = "start"
    /\ agents = NoAgents
    /\ calls = <<>>
    /\ reqs = <<>>
    /\ resp = Nothing
    /\ ret = Nothing
    /\ out = <<>>
    /\ line = <<>>
    /\ choice = <<>>

Msg(text) == P(text, Nothing)

\* The top of the while loop, up to the first input().
Menu == <<Msg("Select an agent:"), Msg("Enter your choice (1-4): ")>>

\* The bottom of the while loop: input("Press Enter to continue...").
Pause == <<Msg("Press Enter to continue...")>>

\* A step of the loop that calls no agent and prints text.
NoAgentCall(text) ==
    /\ calls' = <<>>
    /\ reqs' = <<>>
    /\ resp' = Nothing
    /\ ret' = Nothing
    /\ out' = text

\* main() returning when an agent reports failure.
AfterAgent_stopOnFailure(r) ==
    IF r.ret.t = "return" /\ r.ret.v.t = "none" THEN "done" ELSE "ack"

\* Where main() is after an agent call: an exception that leaves the agent
\* leaves main() too (main() has no handler around the loop).
AfterAgent(r) == IF r.ret.t = "raise" THEN "crashed" ELSE "ack"

\* main() up to the first input(): the banner, the constructor, the menu.
Start(environ_value) ==
    /\ pc = "start"
    /\ LET r == TavilyAgents_init(None, environ_value)
           banner == <<Msg("TAVILY API DEMO"),
                       IF Truthy(environ_value)
                       THEN Msg("API Key loaded")
                       ELSE Msg("No API key found in environment variables")>>
       IN  /\ agents' = r.agents
           /\ ret' = r.ret
           /\ IF r.ret.t = "raise"
              THEN /\ pc' = "failed"
                   /\ out' = banner \o <<P("To use this script:",
                                            [t |-> "exc", v |-> r.ret.v])>>
              ELSE /\ pc' = "menu"
                   /\ out' = banner \o Menu
    /\ calls' = <<[method |-> "__init__", args |-> <<None>>,
                   environ |-> environ_value]>>
    /\ reqs' = <<>>
    /\ resp' = Nothing
    /\ UNCHANGED <<line, choice>>

\* choice = input(...).strip() and the dispatch on it.
ReadChoice(l) ==
    /\ pc = "menu"
    /\ line' = l
    /\ choice' = strip(l)
    /\ IF strip(l) = <<"1">>
       THEN pc' = "query" /\ NoAgentCall(<<Msg("Enter search query: ")>>)
       ELSE IF strip(l) = <<"2">>
       THEN pc' = "urls" /\ NoAgentCall(<<Msg("Enter URL(s): ")>>)
       ELSE IF strip(l) = <<"3">>
       THEN pc' = "crawlurl" /\ NoAgentCall(<<Msg("Enter URL to crawl: ")>>)
       ELSE IF strip(l) = <<"4">>
       THEN pc' = "done" /\ NoAgentCall(<<Msg("Goodbye!")>>)
       ELSE pc' = "ack"
            /\ NoAgentCall(<<Msg("Invalid choice. Please select 1-4.")>> \o Pause)
    /\ UNCHANGED agents

\* The search branch without the test of the query.
ReadQuery_unchecked(l, outcome) ==
    /\ pc = "query"
    /\ line' = l
    /\ LET query == strip(l)
           r == search_agent(query, DefaultMaxResults, outcome)
       IN  /\ AgentCalled(
                 Call("search_agent", <<Str(query), PyInt(DefaultMaxResults)>>),
                 outcome,
                 [r EXCEPT !.out = @ \o Pause])
           /\ pc' = AfterAgent(r)
    /\ UNCHANGED <<agents, choice>>

\* query = input(...).strip(); search or complain; then the pause prompt.
ReadQuery(l, outcome) ==
    /\ pc = "query"
    /\ line' = l
    /\ LET query == strip(l)
       IN  IF query # <<>>
           THEN LET r == search_agent(query, DefaultMaxResults, outcome)
                IN  /\ AgentCalled(
                          Call("search_agent",
                               <<Str(query), PyInt(DefaultMaxResults)>>),
                          outcome,
                          [r EXCEPT !.out = @ \o Pause])
                    /\ pc' = AfterAgent(r)
           ELSE /\ NoAgentCall(<<Msg("Search query cannot be empty!")>> \o Pause)
                /\ pc' = "ack"
    /\ UNCHANGED <<agents, choice>>

\* The extract branch with the pieces left untrimmed: url_input.split(',').
ReadUrls_untrimmed(l, outcome) ==
    /\ pc = "urls"
    /\ line' = l
    /\ LET url_input == strip(l)
       IN  IF url_input # <<>>
           THEN LET urls == List(split(url_input))
                    r == extract_agent(urls, outcome)
                IN  /\ AgentCalled(Call("extract_agent", <<urls>>), outcome,
                                   [r EXCEPT !.out = @ \o Pause])
                    /\ pc' = AfterAgent(r)
           ELSE /\ NoAgentCall(<<Msg("URL cannot be empty!")>> \o Pause)
                /\ pc' = "ack"
    /\ UNCHANGED <<agents, choice>>

\* url_input = input(...).strip(); split, extract or complain; then the pause.
ReadUrls(l, outcome) ==
    /\ pc = "urls"
    /\ line' = l
    /\ LET url_input == strip(l)
       IN  IF url_input # <<>>
           THEN LET urls == List(StripEach(split(url_input)))
                    r == extract_agent(urls, outcome)
                IN  /\ AgentCalled(Call("extract_agent", <<urls>>), outcome,
                                   [r EXCEPT !.out = @ \o Pause])
                    /\ pc' = AfterAgent(r)
           ELSE /\ NoAgentCall(<<Msg("URL cannot be empty!")>> \o Pause)
                /\ pc' = "ack"
    /\ UNCHANGED <<agents, choice>>

\* url = input(...).strip(); crawl or complain; then the pause prompt.
ReadCrawlUrl(l, outcome) ==
    /\ pc = "crawlurl"
    /\ line' = l
    /\ LET url == strip(l)
       IN  IF url # <<>>
           THEN LET r == crawl_agent(url, DefaultMaxDepth, outcome)
                IN  /\ AgentCalled(
                          Call("crawl_agent",
                               <<Str(url), PyInt(DefaultMaxDepth)>>),
                          outcome,
                          [r EXCEPT !.out = @ \o Pause])
                    /\ pc' = AfterAgent(r)
           ELSE /\ NoAgentCall(<<Msg("URL cannot be empty!")>> \o Pause)
                /\ pc' = "ack"
    /\ UNCHANGED <<agents, choice>>

\* input("Press Enter to continue...") returns; the loop starts over.
ReadAck(l) ==
    /\ pc = "ack"
    /\ line' = l
    /\ pc' = "menu"
    /\ NoAgentCall(Menu)
    /\ UNCHANGED <<agents, choice>>

Next ==
    \/ pc = "start" /\ \E e \in CredVals : Start(e)
    \/ pc = "menu" /\ \E l \in Lines : ReadChoice(l)
    \/ pc = "query" /\ \E l \in Lines, o \in ShellOutcomes : ReadQuery(l, o)
    \/ pc = "urls" /\ \E l \in Lines, o \in ShellOutcomes : ReadUrls(l, o)
    \/ pc = "crawlurl" /\ \E l \in Lines, o \in ShellOutcomes : ReadCrawlUrl(l, o)
    \/ pc = "ack" /\ \E l \in Lines : ReadAck(l)

Spec == Init /\ [][Next]_vars

---------------------------------------------------------------------------
(* Vocabulary of the properties *)

AgentMethods == {"search_agent", "extract_agent", "crawl_agent"}

\* The state right after a direct call of an agent method.
AfterCall(method) == pc = "returned" /\ calls[1].method = method

\* The remote client returned an envelope that holds a results sequence.
GotResults ==
    resp.t = "return" /\ resp.v.t = "dict" /\ "results" \in DOMAIN resp.v.v

ReturnedNone == ret.t = "return" /\ ret.v.t = "none"
ReturnedEnvelope == ret.t = "return" /\ resp.t = "return" /\ ret.v = resp.v

\* A string, as opposed to None or a missing key.
IsText(x) == x.t = "str"
NonEmptyText(x) == x.t = "str" /\ x.v # <<>>
EmptyOrAbsent(x) == x = Absent \/ (x.t = "str" /\ x.v = <<>>)

\* The content fields of a record are strings where present.
TextContents(rec) ==
    /\ Get(rec, "raw_content", Absent).t \in {"absent", "str"}
    /\ Get(rec, "content", Absent).t \in {"absent", "str"}

\* The items of the output printed under one tag, in order.
Printed(tag) == SelectSeq(out, LAMBDA it : it.p = tag)

\* t is l without its leading and trailing whitespace.
IsTrimOf(t, l) ==
    \E i \in 1..(Len(l) + 1), j \in 0..Len(l) :
        /\ t = SubSeq(l, i, j)
        /\ \A k \in 1..Len(l) : (k < i \/ k > j) => l[k] \in Whitespace
        /\ t # <<>> => (t[1] \notin Whitespace /\ t[Len(t)] \notin Whitespace)

\* l is empty after trimming.
Blank(l) == \A k \in 1..Len(l) : l[k] \in Whitespace

MenuChoices == {<<"1">>, <<"2">>, <<"3">>, <<"4">>}
PromptStates == {"query", "urls", "crawlurl"}
LoopStates == {"menu", "ack"} \cup PromptStates

\* main() reads a menu choice whose trimmed text is c.
ReadsChoice(c) == pc = "menu" /\ IsTrimOf(c, line')
ReadsOtherChoice == pc = "menu" /\ \A c \in MenuChoices : ~IsTrimOf(c, line')

---------------------------------------------------------------------------
(* C1 *)

ErrorMessageOf(method) ==
    CASE method = "search_agent" -> "Error in search"
      [] method = "extract_agent" -> "Error in extraction"
      [] method = "crawl_agent" -> "Error in crawling"

\* C1: whenever the remote client call of search_agent, extract_agent or
\* crawl_agent raises, the method prints its failure message (last thing it
\* prints, naming the error), returns None, and no exception leaves it.
C1_RemoteErrorReturnsNone ==
    (pc = "returned" /\ resp.t = "raise") =>
        /\ calls[1].method \in AgentMethods
        /\ ret.t # "raise"
        /\ ReturnedNone
        /\ out # <<>>
        /\ out[Len(out)].p = ErrorMessageOf(calls[1].method)
        /\ out[Len(out)].v.v = resp.v

C1_Witness ==
    /\ AfterCall("crawl_agent")
    /\ resp.t = "raise"
    /\ resp.v = "ConnectionError"
    /\ ReturnedNone

---------------------------------------------------------------------------
(* C8 *)

\* C8: constructing TavilyAgents succeeds whenever the explicit argument or
\* the TAVILY_API_KEY value is a non-empty string, the held credential being
\* the argument if that is non-empty and the environment value otherwise;
\* when both are empty or absent it raises ValueError and no client exists.
C8_Construction ==
    (pc \in {"ready", "ctor_failed"}) =>
        LET a == calls[1].args[1]
            e == calls[1].environ
        IN  IF NonEmptyText(a) \/ NonEmptyText(e)
            THEN /\ pc = "ready"
                 /\ ret.t = "return"
                 /\ agents.api_key = (IF NonEmptyText(a) THEN a ELSE e)
                 /\ agents.client.t = "client"
                 /\ agents.client.v = agents.api_key.v
            ELSE /\ pc = "ctor_failed"
                 /\ ret.t = "raise"
                 /\ ret.v = "ValueError"
                 /\ agents.client = Absent

C8_Witness ==
    /\ pc = "ready"
    /\ NonEmptyText(calls[1].args[1])
    /\ NonEmptyText(calls[1].environ)
    /\ calls[1].args[1] # calls[1].environ
    /\ agents.api_key = calls[1].args[1]

---------------------------------------------------------------------------
(* C9 *)

ExtractRequest(urls) == [op |-> "extract", urls |-> urls]

\* C9: extract_agent(u) with a string u issues the one remote extract request
\* whose urls is the single-element sequence [u], which is the request that
\* extract_agent([u]) issues; a sequence argument is forwarded unchanged.
C9_InputShapeInvariance ==
    AfterCall("extract_agent") =>
        LET urls == calls[1].args[1]
        IN  /\ urls.t = "str" => reqs = <<ExtractRequest(<<urls.v>>)>>
            /\ urls.t = "list" => reqs = <<ExtractRequest(urls.v)>>

C9_Witness ==
    /\ AfterCall("extract_agent")
    /\ calls[1].args[1].t = "str"
    /\ calls[1].args[1].v = <<"x">>
    /\ reqs = <<ExtractRequest(<< <<"x">> >>)>>

---------------------------------------------------------------------------
(* C10 *)

\* The results of the envelope the remote client returned (none if missing).
Results == IF GotResults THEN resp.v.v["results"] ELSE <<>>

CrawlRequestOf(url) ==
    [op |-> "extract", urls |-> <<url>>, include_raw_content |-> TRUE]

\* C10 as stated: crawl_agent issues one extract request on [url] with raw
\* content requested, whatever max_depth is; at most the first record is
\* formatted; and whatever the remote call returned is returned unchanged.
C10_AsStated ==
    AfterCall("crawl_agent") =>
        /\ reqs = <<CrawlRequestOf(calls[1].args[1].v)>>
        /\ Len(Printed("Main Page")) <= 1
        /\ resp.t = "return" => ReturnedEnvelope

\* C10, amended: crawl_agent issues one extract request on [url] with raw
\* content requested, whatever max_depth is; with a non-empty results
\* sequence only the first record is formatted; what the remote call returned
\* is returned unchanged (also when results is empty or missing), unless
\* formatting the first record raises (no url key, raw_content not a
\* string), and then None is returned.
C10_Crawl ==
    AfterCall("crawl_agent") =>
        /\ reqs = <<CrawlRequestOf(calls[1].args[1].v)>>
        /\ resp.t = "return" =>
             IF Results # <<>>
             THEN LET first == Results[1]
                  IN  IF "url" \in DOMAIN first
                         /\ Get(first, "raw_content", Absent).t \in {"absent", "str"}
                      THEN /\ ReturnedEnvelope
                           /\ Printed("Main Page") = <<P("Main Page", first["url"])>>
                           /\ Printed("Full Crawled Content") =
                                <<P("Full Crawled Content",
                                    Get(first, "raw_content", Str(<<>>)))>>
                           /\ Len(out) = 5
                      ELSE /\ ReturnedNone
                           /\ Printed("Full Crawled Content") = <<>>
             ELSE /\ ReturnedEnvelope
                  /\ Len(out) = 1

\* Two records with different raw content: the first is the one displayed.
C10_Witness ==
    /\ AfterCall("crawl_agent")
    /\ calls[1].args[2].v = 3
    /\ Len(Results) = 2
    /\ Get(Results[1], "raw_content", Absent) = Str(RawText)
    /\ Get(Results[2], "raw_content", Absent) = Str(<<>>)
    /\ ReturnedEnvelope
    /\ Printed("Full Crawled Content") = <<P("Full Crawled Content", Str(RawText))>>

---------------------------------------------------------------------------
(* C6 *)

\* A record search_agent can display: title and url present, contents text.
Displayable(rec) ==
    /\ "title" \in DOMAIN rec
    /\ "url" \in DOMAIN rec
    /\ TextContents(rec)

\* C6: for every result record search_agent gets to display, the content
\* shown is the raw content if raw and summarized content are both
\* non-empty, the summarized content if the raw content is empty or absent
\* and the summarized content is non-empty, and the empty string (length 0)
\* if both are absent, in which case the method goes on to the next record
\* or returns the envelope.
C6_ContentSelection ==
    (AfterCall("search_agent") /\ GotResults) =>
        LET shown == Printed("Full Content")
            lens == Printed("Content Length")
        IN  \A i \in 1..Len(Results) :
              (\A j \in 1..i : Displayable(Results[j])) =>
                LET raw == Get(Results[i], "raw_content", Absent)
                    summary == Get(Results[i], "content", Absent)
                IN  /\ Len(shown) >= i
                    /\ Len(lens) >= i
                    /\ (NonEmptyText(raw) /\ NonEmptyText(summary))
                          => shown[i].v = raw
                    /\ (EmptyOrAbsent(raw) /\ NonEmptyText(summary))
                          => shown[i].v = summary
                    /\ (raw = Absent /\ summary = Absent) =>
                          /\ shown[i].v = Str(<<>>)
                          /\ lens[i].v.v = 0
                          /\ i = Len(Results) => ReturnedEnvelope
                          /\ i < Len(Results) => Len(Printed("Result #")) > i

\* First record with both contents, second with neither: raw, then "".
C6_Witness ==
    /\ AfterCall("search_agent")
    /\ Len(Results) = 2
    /\ Get(Results[1], "raw_content", Absent) = Str(RawText)
    /\ Get(Results[1], "content", Absent) = Str(SumText)
    /\ Get(Results[2], "raw_content", Absent) = Absent
    /\ Get(Results[2], "content", Absent) = Absent
    /\ "title" \in DOMAIN Results[2]
    /\ Len(Printed("Full Content")) = 2
    /\ Printed("Full Content")[1].v = Str(RawText)
    /\ Printed("Full Content")[2].v = Str(<<>>)
    /\ ReturnedEnvelope

---------------------------------------------------------------------------
(* C7 *)

\* The records a method formats: crawl_agent only the first.
Formatted(method) ==
    IF method = "crawl_agent"
    THEN (IF Results = <<>> THEN <<>> ELSE <<Results[1]>>)
    ELSE Results

\* C7: for each agent method, title is optional and url required: if a
\* record the method formats lacks the url key the method returns None, and
\* if every such record has its url (with or without a title, its content
\* fields strings where present) the method returns the envelope.
C7_TitleOptionalUrlRequired ==
    (pc = "returned" /\ calls[1].method \in AgentMethods /\ GotResults) =>
        LET recs == Formatted(calls[1].method)
        IN  /\ (\E i \in 1..Len(recs) : "url" \notin DOMAIN recs[i])
                  => ReturnedNone
            /\ (\A i \in 1..Len(recs) :
                    "url" \in DOMAIN recs[i] /\ TextContents(recs[i]))
                  => ReturnedEnvelope

---------------------------------------------------------------------------
(* C2 *)

\* C2: in main(), every step taken from a prompt for a query or URL (the
\* agent call succeeded or failed, or the input was empty) and every invalid
\* menu choice leads to the acknowledgment read and nowhere else; that read
\* takes one line and redisplays the menu; and the menu is displayed only
\* at the start and after an acknowledgment read.
C2_AckThenMenu ==
    [][ /\ pc \in PromptStates => pc' = "ack"
        /\ ReadsOtherChoice => pc' = "ack"
        /\ pc' = "ack" => out'[Len(out')] = Msg("Press Enter to continue...")
        /\ pc = "ack" => (pc' = "menu" /\ out' = Menu)
        /\ pc' = "menu" => pc \in {"start", "ack"}
      ]_vars

\* A failed search waiting for its acknowledgment.
C2_Witness ==
    /\ pc = "ack"
    /\ choice = <<"1">>
    /\ calls # <<>>
    /\ calls[1].method = "search_agent"
    /\ resp.t = "raise"
    /\ ReturnedNone

---------------------------------------------------------------------------
(* C3 *)

\* C3: once the menu loop runs, main() leaves it only by reading a menu
\* choice that is "4" after trimming, and reading such a choice ends the
\* loop at once, with no agent call, no remote request and no further read.
C3_ExitOnlyByFour ==
    [][ /\ pc \in LoopStates => pc' \in LoopStates \cup {"done"}
        /\ pc' = "done" => ReadsChoice(<<"4">>)
        /\ ReadsChoice(<<"4">>) =>
              (pc' = "done" /\ calls' = <<>> /\ reqs' = <<>>
               /\ out' = <<Msg("Goodbye!")>>)
      ]_vars

C3_Witness ==
    /\ pc = "done"
    /\ line = <<" ", "4", "\t">>
    /\ choice = <<"4">>

---------------------------------------------------------------------------
(* C4 *)

EmptyInputMessage(state) ==
    IF state = "query"
    THEN Msg("Search query cannot be empty!")
    ELSE Msg("URL cannot be empty!")

\* C4: main() calls no agent on invalid input: a line that is empty after
\* trimming, read for choice "1", "2" or "3", prints the error message and
\* calls nothing; a menu choice other than "1".."4" after trimming prints
\* the invalid-choice message and calls nothing; both lead, through the
\* acknowledgment read, to the menu being displayed again.
C4_NoAgentOnInvalidInput ==
    [][ /\ (pc \in PromptStates /\ Blank(line')) =>
              /\ calls' = <<>>
              /\ reqs' = <<>>
              /\ out'[1] = EmptyInputMessage(pc)
              /\ pc' = "ack"
        /\ ReadsOtherChoice =>
              /\ calls' = <<>>
              /\ reqs' = <<>>
              /\ out'[1] = Msg("Invalid choice. Please select 1-4.")
              /\ pc' = "ack"
        /\ pc = "ack" => (pc' = "menu" /\ calls' = <<>> /\ out' = Menu)
      ]_vars

\* Choice "1", then a line of whitespace.
C4_Witness ==
    /\ pc = "ack"
    /\ choice = <<"1">>
    /\ line = <<" ">>
    /\ calls = <<>>
    /\ out[1] = Msg("Search query cannot be empty!")

---------------------------------------------------------------------------
(* C5 *)

\* The pieces of l between its commas, each trimmed.
TrimmedPieces(l) == StripEach(split(l))

\* What main() does with the line read for choice "2" when it extracts.
ExtractsFrom(l) ==
    /\ calls' = <<Call("extract_agent", <<List(TrimmedPieces(l))>>)>>
    /\ reqs' = <<ExtractRequest(TrimmedPieces(l))>>

\* C5 as stated: for choice "2" every non-empty URL line makes main() call
\* extract_agent once with the trimmed pieces of the line, which the remote
\* request carries; a "4" at the menu then ends the loop with no agent call.
C5_AsStated ==
    [][ /\ (pc = "urls" /\ line' # <<>>) => ExtractsFrom(line')
        /\ ReadsChoice(<<"4">>) => (pc' = "done" /\ calls' = <<>>)
      ]_vars

\* C5, amended: for choice "2" every URL line that is non-empty after
\* trimming makes main() call extract_agent once with the trimmed pieces of
\* the line, in order, which the remote request carries ("x, y" gives
\* ["x", "y"]); after the acknowledgment read a "4" at the menu ends the
\* loop with no agent call.
C5_ExtractFromLine ==
    [][ /\ (pc = "urls" /\ ~Blank(line')) => (ExtractsFrom(line') /\ pc' = "ack")
        /\ (pc = "urls" /\ line' = <<"x", ",", " ", "y">>) =>
              reqs' = <<ExtractRequest(<< <<"x">>, <<"y">> >>)>>
        /\ (pc = "ack" /\ calls # <<>>) => (pc' = "menu" /\ calls' = <<>>)
        /\ ReadsChoice(<<"4">>) => (pc' = "done" /\ calls' = <<>>)
      ]_vars

C5_Witness ==
    /\ pc = "ack"
    /\ choice = <<"2">>
    /\ line = <<"x", ",", " ", "y">>
    /\ calls = <<Call("extract_agent", <<List(<< <<"x">>, <<"y">> >>)>>)>>
    /\ reqs = <<ExtractRequest(<< <<"x">>, <<"y">> >>)>>

===========================================================================
